---- MODULE Spec2Model ----
(***************************************************************************)
(* Model of app/vmctl/remoteread/remoteread.go: the remote-read client.   *)
(* Each Read call is a process that walks through Client.Read and         *)
(* Client.fetch; the remote endpoint, the context and the callback are    *)
(* the environment.                                                       *)
(***************************************************************************)
EXTENDS Integers, Sequences, FiniteSets, TLC

\* ---------------------------------------------------------------- bounds
\* scratch buffers that may exist at the same time
NumBuffers == 2
\* framed messages the endpoint streams in one response, at most
MaxFrames == 2

\* bits of the integers that stand for int64 timestamps
IntBits == 16

\* ------------------------------------------------------ program constants
\* const attempts = 5
attempts == 5
StatusOK == 200
StatusNoContent == 204
StatusUnavailable == 503
StatusInternalError == 500
\* defaultReadTimeout = 30 * time.Second
defaultReadTimeout == 30
\* int64, at the width IntBits
MaxInt64 == 2^(IntBits - 1) - 1
MinInt64 == -(2^(IntBits - 1))

\* the Read calls that may run on the one client
Readers == {"r1", "r2"}
Buffers == 1..NumBuffers
NoBuffer == 0

\* ------------------------------------------------------------- helpers
\* int64 arithmetic wraps around
Wrap64(x) ==
    IF x > MaxInt64 THEN x - 2^IntBits
    ELSE IF x < MinInt64 THEN x + 2^IntBits
    ELSE x

\* strings.TrimSuffix(s, "/") on a string given as a sequence of characters
TrimSuffix(s) ==
    IF Len(s) > 0 /\ s[Len(s)] = "/" THEN SubSeq(s, 1, Len(s) - 1) ELSE s

\* -------------------------------------------------------- client session
Cfg == [Addr |-> <<"h", "/">>, ReadTimeout |-> 0, Username |-> "u", Password |-> "p"]
\* an address http.NewRequest cannot parse (missing protocol scheme)
CfgBadAddr == [Addr |-> <<":", "h">>, ReadTimeout |-> 5, Username |-> "", Password |-> ""]
Cfgs == {Cfg, CfgBadAddr}

\* whether http.NewRequest accepts the URL made of addr and a path
ValidURL(addr) == ~(Len(addr) > 0 /\ addr[1] = ":")

NewClient(cfg) ==
    [addr     |-> TrimSuffix(cfg.Addr),
     c        |-> [Timeout |-> IF cfg.ReadTimeout = 0 THEN defaultReadTimeout
                               ELSE cfg.ReadTimeout],
     user     |-> cfg.Username,
     password |-> cfg.Password]

\* ------------------------------------------------------------- the query
\* patterns regexp.Compile rejects; labels.MustNewMatcher panics on them
InvalidRegexps == {"("}

MetricName == "__name__"

MustNewMatcher(t, n, v) ==
    IF t \in {"MatchRegexp", "MatchNotRegexp"} /\ v \in InvalidRegexps
    THEN [panic |-> TRUE, Type |-> t, Name |-> n, Value |-> v]
    ELSE [panic |-> FALSE, Type |-> t, Name |-> n, Value |-> v]

toLabelMatchers(matcher) ==
    LET mType == CASE matcher.Type = "MatchEqual" -> "EQ"
                   [] matcher.Type = "MatchNotEqual" -> "NEQ"
                   [] matcher.Type = "MatchRegexp" -> "RE"
                   [] matcher.Type = "MatchNotRegexp" -> "NRE"
                   [] OTHER -> "invalid"
    IN IF mType = "invalid"
       THEN [err |-> "invalid matcher type", m |-> <<>>]
       ELSE [err |-> "nil",
             m |-> [Type |-> mType, Name |-> matcher.Name, Value |-> matcher.Value]]

\* Client.query with the matcher chosen by catchAll: outcome "panic", "err"
\* or "ok" with the built query
BuildQuery(filter, catchAll) ==
    LET ms == IF catchAll
              THEN MustNewMatcher("MatchRegexp", MetricName, ".+")
              ELSE MustNewMatcher("MatchRegexp", filter.Label, filter.LabelValue)
        lm == toLabelMatchers(ms)
    IN IF ms.panic THEN [out |-> "panic", q |-> <<>>]
       ELSE IF lm.err # "nil" THEN [out |-> "err", q |-> <<>>]
       ELSE [out |-> "ok",
             q |-> [StartTimestampMs |-> filter.Min,
                    EndTimestampMs   |-> Wrap64(filter.Max - 1),
                    Matchers         |-> <<lm.m>>]]

\* a query that takes the catch-all matcher when either field is empty
query_EitherEmpty(filter) ==
    BuildQuery(filter, filter.Label = "" \/ filter.LabelValue = "")

\* Client.query
query(filter) ==
    BuildQuery(filter, filter.Label = "" /\ filter.LabelValue = "")

\* the request Read marshals and compresses once, before the first attempt
Request(q) ==
    [Encoding |-> "snappy",
     Queries |-> <<q>>,
     AcceptedResponseTypes |-> <<"STREAMED_XOR_CHUNKS">>]

FilterAll == [Min |-> 0, Max |-> 10, Label |-> "", LabelValue |-> ""]
FilterJob == [Min |-> 5, Max |-> 6, Label |-> "job", LabelValue |-> "api.*"]
FilterBad == [Min |-> 0, Max |-> 10, Label |-> "job", LabelValue |-> "("]
Filters == {FilterAll, FilterJob, FilterBad}

\* the filters query is tried on: the ends of the int64 range and values
\* between, every combination of empty and non-empty label fields
QueryMins == {MinInt64, 0, 5, MaxInt64}
QueryMaxs == {MinInt64, MinInt64 + 1, 0, 10, MaxInt64}
QueryFilters ==
    [Min : QueryMins, Max : QueryMaxs, Label : {"", "job"},
     LabelValue : {"", "api.*", "("}]

\* ------------------------------------------------------ the sample codec
\* A chunk payload: hdr is whether chunkenc.FromData accepts it, items are
\* the samples its iterator yields and iterErr whether the iterator then
\* stops on an error instead of the end of the chunk.
ChunkA == [hdr |-> TRUE, items |-> <<10, 20>>, iterErr |-> FALSE]
ChunkB == [hdr |-> TRUE, items |-> <<30>>, iterErr |-> FALSE]
ChunkC == [hdr |-> TRUE, items |-> <<5>>, iterErr |-> FALSE]
ChunkBadHdr == [hdr |-> FALSE, items |-> <<7>>, iterErr |-> FALSE]
ChunkIterErr == [hdr |-> TRUE, items |-> <<8>>, iterErr |-> TRUE]

\* a parseSamples without the check of it.Err() after the iteration
parseSamples_IgnoreIterErr(chunk) ==
    IF ~chunk.hdr
    THEN [samples |-> <<>>, err |-> "chunk_hdr"]
    ELSE [samples |-> chunk.items, err |-> "nil"]

parseSamples(chunk) ==
    IF ~chunk.hdr
    THEN [samples |-> <<>>, err |-> "chunk_hdr"]
    ELSE [samples |-> chunk.items,
          err |-> IF chunk.iterErr THEN "chunk_iter" ELSE "nil"]

\* the inner loop of fetch over series.Chunks: stops at the first error
RECURSIVE AppendChunks(_, _)
AppendChunks(samples, chunks) ==
    IF chunks = <<>> THEN [samples |-> samples, err |-> "nil"]
    ELSE LET p == parseSamples(Head(chunks))
         IN IF p.err # "nil" THEN [samples |-> samples, err |-> p.err]
            ELSE AppendChunks(samples \o p.samples, Tail(chunks))

\* ------------------------------------------------- the response messages
SeriesA == [Labels |-> <<"a">>, Chunks |-> <<ChunkA>>]
SeriesB == [Labels |-> <<"b">>, Chunks |-> <<ChunkB, ChunkC>>]
SeriesBadHdr == [Labels |-> <<"c">>, Chunks |-> <<ChunkC, ChunkBadHdr>>]
SeriesIterErr == [Labels |-> <<"d">>, Chunks |-> <<ChunkIterErr>>]

MsgEmpty == <<>>
MsgTwo == <<SeriesA, SeriesB>>
MsgBadHdr == <<SeriesB, SeriesBadHdr, SeriesA>>
MsgIterErr == <<SeriesIterErr, SeriesA>>
Messages == {MsgEmpty, MsgTwo, MsgBadHdr, MsgIterErr}

Statuses == {StatusOK, StatusNoContent, StatusUnavailable}

\* what the remote endpoint and the callers may do in a run
EnvFull == [msgs |-> Messages, statuses |-> Statuses, filters |-> Filters,
            health |-> {StatusOK, StatusInternalError}, pingFails |-> BOOLEAN]
EnvSmall == [msgs |-> {MsgBadHdr}, statuses |-> {StatusOK, StatusUnavailable},
             filters |-> {FilterAll}, health |-> {StatusOK}, pingFails |-> {FALSE}]
EnvPing == [msgs |-> {MsgBadHdr}, statuses |-> {StatusOK, StatusUnavailable},
            filters |-> {FilterAll}, health |-> {StatusOK, StatusInternalError},
            pingFails |-> BOOLEAN]

\* ----------------------------------------------------------------- state
VARIABLES
    client,   \* the Client: addr, c, user, password
    pool,     \* bodyBufferPool: the buffers lying in the pool
    ctx,      \* per Read call: its context (canceled; canceled mid-stream;
              \* canceled during the backoff sleep)
    rd,       \* per Read call: the locals of Read and fetch, and its history
    ping,     \* the last Ping call: GETs issued, status seen, error returned
    qcall,    \* a call of Client.query on its own: the filter and the outcome
    env       \* the behaviour of the endpoint and of the callers in this run

vars == <<client, pool, ctx, rd, ping, qcall, env>>

EmptyTS == [Labels |-> <<>>, Samples |-> <<>>]

\* errors for which errors.Is(err, context.Canceled) holds
IsCanceled(err) == err \in {"do_canceled", "read_canceled", "cb_canceled"}

\* what a callback may return
CallbackResults == {"nil", "cb_err", "cb_canceled"}

InitReader(on) ==
    [pc            |-> IF on THEN "init" ELSE "off",
     i             |-> 0,
     b             |-> <<>>,
     result        |-> "none",
     fetchCalls    |-> 0,
     sleeps        |-> 0,
     fetchErr      |-> "none",
     status        |-> 0,
     lastRead      |-> "none",
     frames        |-> <<>>,
     si            |-> 0,
     ts            |-> EmptyTS,
     delivered     |-> <<>>,
     cbActive      |-> 0,
     held          |-> NoBuffer,
     gets          |-> 0,
     puts          |-> 0,
     prevDelivered |-> 0]

NoQuery == [out |-> "none", q |-> <<>>]

NoPing == [gets |-> 0, status |-> 0, err |-> "none", code |-> 0]

InitState(cfg, active, e) ==
    /\ client = NewClient(cfg)
    /\ pool = {}
    /\ ctx = [r \in Readers |-> [canceled |-> FALSE, mid |-> FALSE,
                                  sleep |-> FALSE]]
    /\ rd = [r \in Readers |-> InitReader(r \in active)]
    /\ ping = NoPing
    /\ env = e

InitBase(active, e) == InitState(Cfg, active, e)

InitWith(active, e) ==
    /\ InitBase(active, e)
    /\ qcall = [filter |-> FilterAll, res |-> NoQuery]

Init == InitWith({"r1"}, EnvFull)
InitConc == InitWith(Readers, EnvSmall)
\* one Read call and Ping calls, on a client built from any of Cfgs
InitPing ==
    /\ \E cfg \in Cfgs : InitState(cfg, {"r1"}, EnvPing)
    /\ qcall = [filter |-> FilterAll, res |-> NoQuery]
\* no Read call; Client.query is about to be called with some filter
InitQuery ==
    /\ InitBase({}, EnvFull)
    /\ qcall \in [filter : QueryFilters, res : {NoQuery}]

\* ------------------------------------------------------------ Client.Read
\* the loop header  for i := 0; i < attempts; i++  reached with counter n:
\* either the next call of fetch, or the return after the loop
\* err := c.fetch(ctx, b, streamCb) is called in iteration n
CallFetch(s, n) ==
    [s EXCEPT !.i = n, !.pc = "do", !.fetchCalls = @ + 1,
              !.prevDelivered = IF s.fetchErr = "cb_err"
                                THEN Len(s.delivered) ELSE 0,
              !.fetchErr = "none", !.status = 0, !.lastRead = "none",
              !.frames = <<>>,
              !.si = 0, !.ts = EmptyTS, !.delivered = <<>>,
              !.gets = 0, !.puts = 0]

\* the return nil after the loop
LoopEnd(s, n) == [s EXCEPT !.i = n, !.pc = "done", !.result = "nil"]

\* a loop that runs once more:  i <= attempts
LoopNext_OneMore(s, n) ==
    IF n <= attempts THEN CallFetch(s, n) ELSE LoopEnd(s, n)

LoopNext(s, n) ==
    IF n < attempts THEN CallFetch(s, n) ELSE LoopEnd(s, n)

\* Read up to the first call of fetch
ReadBegin(s, filter) ==
    LET qr == query(filter)
    IN IF qr.out = "panic" THEN [s EXCEPT !.pc = "done", !.result = "panic"]
       ELSE IF qr.out = "err"
       THEN [s EXCEPT !.pc = "done", !.result = "error prepare stream query"]
       ELSE LoopNext([s EXCEPT !.b = Request(qr.q)], 0)

\* a loop body without the errors.Is(err, context.Canceled) branch
AfterFetch_RetryCanceled(s, err) ==
    IF err # "nil"
    THEN [s EXCEPT !.pc = "sleep", !.sleeps = @ + 1]
    ELSE [s EXCEPT !.pc = "done", !.result = "nil"]

\* a loop body that retries at once, without time.Sleep
AfterFetch_NoSleep(s, err) ==
    IF err # "nil"
    THEN IF IsCanceled(err)
         THEN [s EXCEPT !.pc = "done", !.result = "stopped"]
         ELSE LoopNext(s, s.i + 1)
    ELSE [s EXCEPT !.pc = "done", !.result = "nil"]

\* the body of the loop once fetch has returned err
AfterFetch(s, err) ==
    IF err # "nil"
    THEN IF IsCanceled(err)
         THEN [s EXCEPT !.pc = "done", !.result = "stopped"]
         ELSE [s EXCEPT !.pc = "sleep", !.sleeps = @ + 1]
    ELSE [s EXCEPT !.pc = "done", !.result = "nil"]

\* ----------------------------------------------------------- Client.fetch
\* a fetch that puts the buffer back at the end of the function only, not
\* on the error returns
FetchReturn_NoPutOnError(s, err) ==
    AfterFetch([s EXCEPT !.fetchErr = err,
                         !.held = IF err = "nil" THEN NoBuffer ELSE @,
                         !.puts = IF s.held # NoBuffer /\ err = "nil"
                                  THEN @ + 1 ELSE @], err)

\* fetch returns err: the deferred Put runs if a buffer was checked out
FetchReturn(s, err) ==
    AfterFetch([s EXCEPT !.fetchErr = err,
                         !.held = NoBuffer,
                         !.puts = IF s.held # NoBuffer THEN @ + 1 ELSE @], err)

\* the status check with || for &&
StatusAccepted_Or(st) == ~(st # StatusNoContent \/ st # StatusOK)

StatusAccepted(st) == ~(st # StatusNoContent /\ st # StatusOK)

\* the buffers bodyBufferPool.Get may hand out: one lying in the pool, or a
\* new one
PoolGet(p, inUse) ==
    LET unused == Buffers \ (p \cup inUse)
    IN p \cup {bf \in unused : \A other \in unused : bf <= other}

InUse == {rd[r].held : r \in Readers} \ {NoBuffer}

\* the pool once the call that was in state s has moved to state t
PoolAfter(s, t) == pool \cup ({s.held} \ {t.held, NoBuffer})

Step(r, t) ==
    /\ rd' = [rd EXCEPT ![r] = t]
    /\ pool' = PoolAfter(rd[r], t)
    /\ UNCHANGED <<client, ctx, ping, qcall, env>>

ReadStart(r) ==
    /\ rd[r].pc = "init"
    /\ \E f \in env.filters : Step(r, ReadBegin(rd[r], f))

\* http.NewRequest fails, or else c.c.Do fails
DoFails(s, canceled) ==
    FetchReturn(s, IF ~ValidURL(client.addr) THEN "request"
                   ELSE IF canceled THEN "do_canceled" ELSE "transport")

\* c.c.Do answers with status st: the status check
DoAnswers(s, st) ==
    IF ~StatusAccepted(st)
    THEN FetchReturn([s EXCEPT !.status = st], "status")
    ELSE [s EXCEPT !.status = st, !.pc = "get"]

FetchDo(r) ==
    /\ rd[r].pc = "do"
    /\ \/ Step(r, DoFails(rd[r], ctx[r].canceled))
       \/ /\ ValidURL(client.addr)
          /\ ~ctx[r].canceled
          /\ \E st \in env.statuses : Step(r, DoAnswers(rd[r], st))

\* bb := bodyBufferPool.Get(); defer bodyBufferPool.Put(bb)
Acquire(s, bf) == [s EXCEPT !.held = bf, !.gets = @ + 1, !.pc = "next"]

\* a Put that is not deferred: the buffer is back in the pool at once
AfterGet_PutAtOnce(p, bf) == p \cup {bf}

\* the pool while fetch runs: the Put is deferred to the return of fetch
AfterGet(p, bf) == p \ {bf}

FetchGet(r) ==
    /\ rd[r].pc = "get"
    /\ \E bf \in PoolGet(pool, InUse) :
          /\ rd' = [rd EXCEPT ![r] = Acquire(rd[r], bf)]
          /\ pool' = AfterGet(pool, bf)
          /\ UNCHANGED <<client, ctx, ping, qcall, env>>

\* a fetch that resumes a message at the entry the last attempt failed on
GotMessage_Resume(s, m) ==
    [s EXCEPT !.frames = Append(@, m), !.ts = EmptyTS, !.lastRead = "msg",
              !.si = IF s.prevDelivered > 1 /\ s.prevDelivered <= Len(m)
                     THEN s.prevDelivered ELSE 1,
              !.pc = IF Len(m) = 0 THEN "next" ELSE "series"]

\* a fetch whose ts is declared outside the loop over the messages
GotMessage_KeepTS(s, m) ==
    [s EXCEPT !.frames = Append(@, m), !.si = 1,
              !.lastRead = "msg",
              !.pc = IF Len(m) = 0 THEN "next" ELSE "series"]

\* stream.NextProto returns message m
GotMessage(s, m) ==
    [s EXCEPT !.frames = Append(@, m), !.ts = EmptyTS, !.si = 1,
              !.lastRead = "msg",
              !.pc = IF Len(m) = 0 THEN "next" ELSE "series"]

\* a loop that breaks on every error of stream.NextProto
GotError_BreakOnAny(s, err) ==
    FetchReturn([s EXCEPT !.lastRead = err], "nil")

\* stream.NextProto returns err: io.EOF ends the loop
GotError(s, err) ==
    LET t == [s EXCEPT !.lastRead = err]
    IN IF err = "EOF" THEN FetchReturn(t, "nil") ELSE FetchReturn(t, err)

\* The chunked reader reads the body through a buffer: what had arrived
\* before a cancellation (messages, the end of the stream, a bad frame) is
\* still returned after it; a read that reaches the body after the
\* cancellation fails with the cancellation error.
FetchNext(r) ==
    /\ rd[r].pc = "next"
    /\ \/ Step(r, GotError(rd[r], "EOF"))
       \/ Step(r, GotError(rd[r], "frame"))
       \/ /\ ctx[r].canceled
          /\ Step(r, GotError(rd[r], "read_canceled"))
       \/ /\ Len(rd[r].frames) < MaxFrames
          /\ \E m \in env.msgs : Step(r, GotMessage(rd[r], m))

\* a fetch that calls the callback inside the loop over the chunks: once
\* per chunk of the entry
SeriesStep_PerChunk(s) ==
    LET series == s.frames[Len(s.frames)][s.si]
        labels == s.ts.Labels \o series.Labels
        ac     == AppendChunks(s.ts.Samples, series.Chunks)
    IN IF ac.err # "nil"
       THEN FetchReturn(s, ac.err)
       ELSE [s EXCEPT !.ts = [Labels |-> labels, Samples |-> ac.samples],
                      !.delivered = @ \o [c \in 1..Len(series.Chunks)
                                              |-> <<Len(s.frames), s.si>>],
                      !.cbActive = @ + 1,
                      !.pc = "cb"]

\* one pass of  for _, series := range res.ChunkedSeries  up to the call of
\* the callback
SeriesStep(s) ==
    LET series == s.frames[Len(s.frames)][s.si]
        labels == s.ts.Labels \o series.Labels
        ac     == AppendChunks(s.ts.Samples, series.Chunks)
    IN IF ac.err # "nil"
       THEN FetchReturn(s, ac.err)
       ELSE [s EXCEPT !.ts = [Labels |-> labels, Samples |-> ac.samples],
                      !.delivered = Append(@, <<Len(s.frames), s.si>>),
                      !.cbActive = @ + 1,
                      !.pc = "cb"]

FetchSeries(r) ==
    /\ rd[r].pc = "series"
    /\ Step(r, SeriesStep(rd[r]))

\* a fetch that steps over the entry after each one it delivers
CallbackDone_SkipEntry(s, res) ==
    LET t == [s EXCEPT !.cbActive = @ - 1]
    IN IF res # "nil"
       THEN FetchReturn(t, res)
       ELSE [t EXCEPT !.si = @ + 2,
                      !.pc = IF s.si + 2 > Len(s.frames[Len(s.frames)])
                             THEN "next" ELSE "series"]

\* streamCb(ts) returns res
CallbackDone(s, res) ==
    LET t == [s EXCEPT !.cbActive = @ - 1]
    IN IF res # "nil"
       THEN FetchReturn(t, res)
       ELSE [t EXCEPT !.si = @ + 1,
                      !.pc = IF s.si + 1 > Len(s.frames[Len(s.frames)])
                             THEN "next" ELSE "series"]

CallbackReturn(r) ==
    /\ rd[r].pc = "cb"
    /\ \E res \in CallbackResults : Step(r, CallbackDone(rd[r], res))

\* time.Sleep(time.Second) is over; continue
SleepDone(r) ==
    /\ rd[r].pc = "sleep"
    /\ Step(r, LoopNext(rd[r], rd[r].i + 1))

\* fetch is between two framed-message reads, or in the callback
MidStream(s) ==
    \/ s.pc \in {"series", "cb"}
    \/ s.pc = "next" /\ s.frames # <<>>

\* the caller cancels the context of a Read call
Cancel(r) ==
    /\ rd[r].pc \notin {"off", "done"}
    /\ ~ctx[r].canceled
    /\ ctx' = [ctx EXCEPT ![r] = [canceled |-> TRUE,
                                  mid |-> MidStream(rd[r]),
                                  sleep |-> rd[r].pc = "sleep"]]
    /\ UNCHANGED <<client, pool, rd, ping, qcall, env>>

\* ------------------------------------------------------------ Client.Ping
\* a Ping without the status check
PingResult_AnyStatus(urlOK, transportErr, st) ==
    IF ~urlOK
    THEN [gets |-> 0, status |-> 0, err |-> "cannot create request", code |-> 0]
    ELSE IF transportErr
    THEN [gets |-> 1, status |-> 0, err |-> "transport", code |-> 0]
    ELSE [gets |-> 1, status |-> st, err |-> "nil", code |-> 0]

\* Ping: the GETs it issued, the status it saw, the error it returns and
\* the status code the error carries
PingResult(urlOK, transportErr, st) ==
    IF ~urlOK
    THEN [gets |-> 0, status |-> 0, err |-> "cannot create request", code |-> 0]
    ELSE IF transportErr
    THEN [gets |-> 1, status |-> 0, err |-> "transport", code |-> 0]
    ELSE IF st # StatusOK
    THEN [gets |-> 1, status |-> st, err |-> "bad status code", code |-> st]
    ELSE [gets |-> 1, status |-> st, err |-> "nil", code |-> 0]

Ping ==
    /\ \E te \in env.pingFails, st \in env.health :
          ping' = PingResult(ValidURL(client.addr), te, st)
    /\ UNCHANGED <<client, pool, ctx, rd, qcall, env>>

\* ----------------------------------------------------------- Client.query
\* c.query(filter) is called and returns (or panics)
QueryCall ==
    /\ qcall.res.out = "none"
    /\ qcall' = [qcall EXCEPT !.res = query(qcall.filter)]
    /\ UNCHANGED <<client, pool, ctx, rd, ping, env>>

\* the steps of the Read calls
Next ==
    \E r \in Readers :
       \/ ReadStart(r)
       \/ FetchDo(r)
       \/ FetchGet(r)
       \/ FetchNext(r)
       \/ FetchSeries(r)
       \/ CallbackReturn(r)
       \/ SleepDone(r)
       \/ Cancel(r)

\* the Read calls and the Ping calls on one client
NextAll == Next \/ Ping

\* one Read call
Spec == Init /\ [][Next]_vars
\* two Read calls and Ping calls at the same time
SpecConc == InitConc /\ [][NextAll]_vars
\* one Read call and Ping calls on a client of any configuration
SpecPing == InitPing /\ [][NextAll]_vars
\* Client.query on its own, over QueryFilters
SpecQuery == InitQuery /\ [][QueryCall]_vars

\* ------------------------------------------------------------ properties
\* the series entries of the messages in frames, in stream order, each
\* named by <<message number, entry number>>
RECURSIVE EntriesFrom(_, _, _)
EntriesFrom(frames, f, k) ==
    IF f > Len(frames) THEN <<>>
    ELSE IF k > Len(frames[f]) THEN EntriesFrom(frames, f + 1, 1)
    ELSE <<(<<f, k>>)>> \o EntriesFrom(frames, f, k + 1)

AllEntries(frames) == EntriesFrom(frames, 1, 1)

IsPrefix(s, t) == Len(s) <= Len(t) /\ s = SubSeq(t, 1, Len(s))

InFetch(s) == s.pc \in {"do", "get", "next", "series", "cb"}
Streaming(s) == s.pc \in {"next", "series", "cb"}
Retryable(err) == err \notin {"none", "nil"} /\ ~IsCanceled(err)

\* C1: when every fetch attempt of a Read call has failed with an error that
\* is not a cancellation, Read has made exactly 5 attempts and returns an
\* error, not success.
C1_ExhaustionIsAnError ==
    \A r \in Readers :
        (rd[r].pc = "done" /\ Retryable(rd[r].fetchErr))
            => (rd[r].fetchCalls = attempts /\ rd[r].result \notin {"nil", "none"})

\* C2: a Read call never makes more than 5 fetch attempts, and it issues
\* an attempt after the first only from the backoff that follows an attempt
\* that returned a failure other than a cancellation.
C2_AttemptsBounded ==
    [][\A r \in Readers :
          /\ rd'[r].fetchCalls <= attempts
          /\ rd'[r].fetchCalls # rd[r].fetchCalls =>
                /\ rd'[r].fetchCalls = rd[r].fetchCalls + 1
                /\ rd'[r].pc = "do"
                /\ \/ rd[r].fetchCalls = 0
                   \/ /\ rd[r].pc = "sleep"
                      /\ Retryable(rd[r].fetchErr)
                      /\ rd[r].sleeps = rd[r].fetchCalls]_vars

C2_Witness ==
    \E r \in Readers : rd[r].fetchCalls = attempts /\ rd[r].pc = "do"

\* C3: once a fetch attempt has failed with a cancellation error, Read has
\* returned "stopped": no sleep follows that attempt, and nothing of the
\* call changes any more (no further attempt, sleep or callback).
C3_CancelIsTerminal ==
    /\ [](\A r \in Readers :
            IsCanceled(rd[r].fetchErr) =>
                /\ rd[r].pc = "done"
                /\ rd[r].result = "stopped"
                /\ rd[r].fetchCalls = rd[r].i + 1
                /\ rd[r].sleeps = rd[r].i)
    /\ [][\A r \in Readers : IsCanceled(rd[r].fetchErr) => rd'[r] = rd[r]]_vars

C3_Witness ==
    \E r \in Readers :
        /\ rd[r].fetchErr = "read_canceled"
        /\ rd[r].fetchCalls = 3
        /\ rd[r].result = "stopped"

\* C4: after the context was canceled while an attempt was streaming, the
\* Read call is still inside that attempt or has returned "stopped"; it
\* takes no backoff, issues no further attempt and does not return success.
C4_MidStreamCancelStops ==
    \A r \in Readers :
        ctx[r].mid =>
            \/ Streaming(rd[r])
            \/ rd[r].pc = "done" /\ rd[r].result = "stopped"

\* C5: a successful fetch attempt makes Read return success at once, with
\* no callback in progress and the callback invoked for every series entry
\* of the stream; and a Read that returns success before its attempts are
\* used up does so from a successful attempt.
C5_SuccessReturnsAtOnce ==
    \A r \in Readers :
        /\ rd[r].fetchErr = "nil" =>
              /\ rd[r].pc = "done"
              /\ rd[r].result = "nil"
              /\ rd[r].cbActive = 0
              /\ rd[r].delivered = AllEntries(rd[r].frames)
              /\ rd[r].fetchCalls = rd[r].i + 1
              /\ rd[r].sleeps = rd[r].i
        /\ (rd[r].result = "nil" /\ rd[r].i < attempts) => rd[r].fetchErr = "nil"

C5_Witness ==
    \E r \in Readers :
        /\ rd[r].fetchErr = "nil"
        /\ rd[r].fetchCalls >= 2
        /\ Len(rd[r].delivered) >= 3

\* C6: when the callback fails on an entry, fetch has returned the
\* callback's error with that entry the last one delivered; and an attempt
\* that follows such a failure reads with the same request from the first
\* entry of its stream, whatever was delivered before the failure.
C6_CallbackFailureRestarts ==
    \A r \in Readers :
        /\ rd[r].fetchErr \in {"cb_err", "cb_canceled"} =>
              /\ ~InFetch(rd[r])
              /\ rd[r].cbActive = 0
              /\ rd[r].delivered # <<>>
              /\ IsPrefix(rd[r].delivered, AllEntries(rd[r].frames))
              /\ rd[r].delivered[Len(rd[r].delivered)]
                    = <<Len(rd[r].frames), rd[r].si>>
        /\ (rd[r].prevDelivered > 0 /\ InFetch(rd[r])) =>
              /\ rd[r].fetchCalls >= 2
              /\ IsPrefix(rd[r].delivered, AllEntries(rd[r].frames))
              /\ (rd[r].pc = "series" /\ rd[r].delivered = <<>>) =>
                    AllEntries(rd[r].frames)[1] = <<Len(rd[r].frames), rd[r].si>>

C6_Witness ==
    \E r \in Readers :
        /\ rd[r].prevDelivered >= 2
        /\ rd[r].pc = "cb"
        /\ Len(rd[r].delivered) >= rd[r].prevDelivered

\* C7: in an attempt the callback invocations are the series entries of the
\* messages read so far, in stream order and once each, up to the entry
\* being processed; at most one invocation is in progress, and the next
\* message is read only when every entry read so far has been delivered.
C7_CallbackOrder ==
    \A r \in Readers :
        /\ IsPrefix(rd[r].delivered, AllEntries(rd[r].frames))
        /\ rd[r].cbActive \in {0, 1}
        /\ rd[r].cbActive = 1 <=> rd[r].pc = "cb"
        /\ rd[r].pc = "next" => rd[r].delivered = AllEntries(rd[r].frames)
        /\ rd[r].pc = "cb" =>
              rd[r].delivered[Len(rd[r].delivered)] = <<Len(rd[r].frames), rd[r].si>>
        /\ rd[r].pc = "series" =>
              Append(rd[r].delivered, <<Len(rd[r].frames), rd[r].si>>)
                  = SubSeq(AllEntries(rd[r].frames), 1, Len(rd[r].delivered) + 1)

C7_Witness ==
    \E r \in Readers :
        /\ rd[r].pc = "cb"
        /\ Len(rd[r].frames) = 2
        /\ Len(rd[r].delivered) = 4

\* C8: a fetch call checks out at most one buffer, holds it while it
\* streams, and has put it back exactly once when it has returned, whatever
\* the exit path; outside fetch no buffer is held.
C8_BufferReleased ==
    \A r \in Readers :
        /\ rd[r].gets \in {0, 1}
        /\ Streaming(rd[r]) =>
              rd[r].held # NoBuffer /\ rd[r].gets = 1 /\ rd[r].puts = 0
        /\ ~Streaming(rd[r]) =>
              rd[r].held = NoBuffer /\ rd[r].puts = rd[r].gets
        /\ rd[r].fetchErr \in {"nil", "frame", "read_canceled", "chunk_hdr",
                               "chunk_iter", "cb_err", "cb_canceled"} =>
              rd[r].gets = 1 /\ rd[r].puts = 1
        /\ rd[r].held # NoBuffer => rd[r].held \notin pool

C8_Witness ==
    \E r \in Readers :
        /\ rd[r].fetchErr = "chunk_iter"
        /\ rd[r].puts = 1
        /\ rd[r].held = NoBuffer
        /\ pool # {}

\* C9: with Read calls running at the same time, a checked-out buffer is
\* held by one fetch call only and is not in the pool, and the client's
\* session state stays as NewClient built it.
C9_ExclusiveBuffers ==
    /\ \A r1, r2 \in Readers :
          (r1 # r2 /\ rd[r1].held # NoBuffer) => rd[r1].held # rd[r2].held
    /\ \A r \in Readers : rd[r].held # NoBuffer => rd[r].held \notin pool
    /\ client = NewClient(Cfg)

C9_Witness ==
    /\ \A r \in Readers : rd[r].held # NoBuffer /\ rd[r].fetchCalls >= 2
    /\ ping.gets = 1

\* C10: an attempt whose response status is neither 200 nor 204 has failed
\* with the unexpected-status error, having read no message, invoked no
\* callback and checked out no buffer; an attempt opens the stream exactly
\* when the status is 200 or 204.
C10_StatusGate ==
    \A r \in Readers :
        /\ (rd[r].status # 0 /\ rd[r].status \notin {StatusOK, StatusNoContent}) =>
              /\ rd[r].fetchErr = "status"
              /\ rd[r].frames = <<>>
              /\ rd[r].delivered = <<>>
              /\ rd[r].gets = 0
        /\ rd[r].fetchErr = "status" => rd[r].status \notin {0, StatusOK, StatusNoContent}
        /\ (rd[r].gets = 1 \/ rd[r].pc = "get")
              <=> rd[r].status \in {StatusOK, StatusNoContent}

C10_Witness ==
    \E r \in Readers :
        /\ rd[r].status = StatusUnavailable
        /\ rd[r].fetchErr = "status"
        /\ rd[r].pc = "sleep"

\* C11: an attempt has returned success exactly when its last read of the
\* stream reported the end of the stream; a read that reported another
\* error has ended the attempt with that error; chunk and callback errors
\* come after a message; and an accepted response with no frame has
\* invoked the callback zero times.
C11_SuccessIffEndOfStream ==
    \A r \in Readers :
        /\ rd[r].fetchErr = "nil" <=> rd[r].lastRead = "EOF"
        /\ rd[r].lastRead \in {"frame", "read_canceled"} =>
              rd[r].fetchErr = rd[r].lastRead /\ ~InFetch(rd[r])
        /\ rd[r].fetchErr \in {"chunk_hdr", "chunk_iter", "cb_err", "cb_canceled"} =>
              rd[r].lastRead = "msg"
        /\ rd[r].lastRead # "none" => StatusAccepted(rd[r].status)
        /\ (rd[r].fetchErr = "nil" /\ rd[r].frames = <<>>) =>
              rd[r].delivered = <<>> /\ rd[r].result = "nil"

C11_Witness ==
    \E r \in Readers :
        /\ rd[r].status = StatusNoContent
        /\ rd[r].lastRead = "EOF"
        /\ rd[r].frames = <<>>
        /\ rd[r].delivered = <<>>
        /\ rd[r].result = "nil"

\* C12: for every filter, the built query has Start = filter.Min and
\* End = filter.Max - 1.
C12_QueryBounds ==
    qcall.res.out = "ok" =>
        /\ qcall.res.q.StartTimestampMs = qcall.filter.Min
        /\ qcall.res.q.EndTimestampMs = qcall.filter.Max - 1

\* C13: every built query carries exactly one matcher, a regex matcher: the
\* metric-name label with pattern ".+" when Label and LabelValue are both
\* empty, and (Label, LabelValue) in every other case.
C13_OneRegexMatcher ==
    qcall.res.out = "ok" =>
        LET f == qcall.filter
            ms == qcall.res.q.Matchers
        IN /\ Len(ms) = 1
           /\ ms[1].Type = "RE"
           /\ (f.Label = "" /\ f.LabelValue = "") =>
                 ms[1].Name = MetricName /\ ms[1].Value = ".+"
           /\ ~(f.Label = "" /\ f.LabelValue = "") =>
                 ms[1].Name = f.Label /\ ms[1].Value = f.LabelValue

C13_Witness ==
    /\ qcall.res.out = "ok"
    /\ qcall.filter.Label = ""
    /\ qcall.filter.LabelValue = "api.*"
    /\ qcall.res.q.Matchers = <<[Type |-> "RE", Name |-> "", Value |-> "api.*"]>>

\* C14: a Ping call that has returned issued exactly one GET; it returned
\* success exactly when the status was 200, an error carrying the status
\* code for any other status, and an error for a transport failure.
C14_PingOneGet ==
    ping.err # "none" =>
        /\ ping.gets = 1
        /\ ping.err = "nil" <=> ping.status = StatusOK
        /\ ping.status \notin {0, StatusOK} =>
              ping.err = "bad status code" /\ ping.code = ping.status
        /\ ping.status = 0 => ping.err = "transport"

\* C14 as amended: a Ping call issues at most one GET: none, with an error,
\* when the request cannot be built from the client's address, and exactly
\* one otherwise; then it returns success exactly when the status is 200,
\* an error carrying the status code for any other status, and an error
\* for a transport failure.
C14_PingAtMostOneGet ==
    ping.err # "none" =>
        /\ ping.gets \in {0, 1}
        /\ ping.gets = 0 <=> ~ValidURL(client.addr)
        /\ ping.gets = 0 => ping.err = "cannot create request" /\ ping.status = 0
        /\ ping.err = "nil" <=> ping.status = StatusOK
        /\ ping.status \notin {0, StatusOK} =>
              ping.err = "bad status code" /\ ping.code = ping.status
        /\ (ping.gets = 1 /\ ping.status = 0) => ping.err = "transport"

C14_Witness ==
    /\ ping.gets = 1
    /\ ping.status = StatusInternalError
    /\ ping.err = "bad status code"
    /\ ping.code = StatusInternalError

\* C15: once the context was canceled during the backoff sleep, the Read
\* call issues no further fetch attempt: it is still in that sleep or has
\* returned.
C15_SleepCancelStops ==
    \A r \in Readers : ctx[r].sleep => ~InFetch(rd[r])

\* the samples of the chunks, in wire order
RECURSIVE ChunkItems(_)
ChunkItems(chunks) ==
    IF chunks = <<>> THEN <<>>
    ELSE Head(chunks).items \o ChunkItems(Tail(chunks))

\* the labels and the samples of entries 1..k of message msg, concatenated
RECURSIVE LabelsUpTo(_, _)
LabelsUpTo(msg, k) ==
    IF k = 0 THEN <<>> ELSE LabelsUpTo(msg, k - 1) \o msg[k].Labels

RECURSIVE SamplesUpTo(_, _)
SamplesUpTo(msg, k) ==
    IF k = 0 THEN <<>> ELSE SamplesUpTo(msg, k - 1) \o ChunkItems(msg[k].Chunks)

SeriesUpTo(msg, k) ==
    [Labels |-> LabelsUpTo(msg, k), Samples |-> SamplesUpTo(msg, k)]

\* C16: at the callback for entry k of a message, the series value holds the
\* labels of entries 1..k of that message and the samples of all their
\* chunks in wire order, and nothing of an earlier message; before entry k
\* is processed it holds those of entries 1..k-1.
C16_SeriesAccumulates ==
    \A r \in Readers :
        LET s == rd[r]
        IN /\ s.pc = "cb" => s.ts = SeriesUpTo(s.frames[Len(s.frames)], s.si)
           /\ s.pc = "series" => s.ts = SeriesUpTo(s.frames[Len(s.frames)], s.si - 1)

C16_Witness ==
    \E r \in Readers :
        /\ rd[r].pc = "cb"
        /\ rd[r].frames = <<MsgTwo, MsgTwo>>
        /\ rd[r].si = 2
        /\ rd[r].ts = [Labels |-> <<"a", "b">>, Samples |-> <<10, 20, 30, 5>>]

ChunkErrors == {"chunk_hdr", "chunk_iter"}

\* the chunk decodes: its header is readable and its iteration ends clean
ChunkDecodes(chunk) == chunk.hdr /\ ~chunk.iterErr

\* C17: when a chunk of an entry fails to decode, fetch returns that error
\* at once: no callback is running, the callback was invoked for exactly
\* the entries before the failing one and for none after it, no entry
\* handed to the callback holds a chunk that fails to decode, and Read
\* treats the error as any other non-cancel failure: it sleeps once and
\* moves on to the next iteration of its loop.
C17_ChunkErrorAborts ==
    \A r \in Readers :
        LET s   == rd[r]
            all == AllEntries(s.frames)
            n   == Len(s.delivered)
        IN /\ \A j \in 1..n :
                 \A c \in 1..Len(s.frames[s.delivered[j][1]][s.delivered[j][2]].Chunks) :
                     ChunkDecodes(s.frames[s.delivered[j][1]][s.delivered[j][2]].Chunks[c])
           /\ s.fetchErr \in ChunkErrors =>
                 /\ s.pc \in {"sleep", "done"}
                 /\ s.pc = "done" => s.fetchCalls = attempts
                 /\ s.result # "stopped"
                 /\ s.sleeps = s.fetchCalls
                 /\ s.cbActive = 0
                 /\ s.held = NoBuffer
                 /\ n < Len(all)
                 /\ s.delivered = SubSeq(all, 1, n)
                 /\ all[n + 1] = <<Len(s.frames), s.si>>
                 /\ \E c \in 1..Len(s.frames[Len(s.frames)][s.si].Chunks) :
                        ~ChunkDecodes(s.frames[Len(s.frames)][s.si].Chunks[c])

C17_Witness ==
    \E r \in Readers :
        /\ rd[r].pc = "sleep"
        /\ rd[r].fetchErr = "chunk_hdr"
        /\ rd[r].frames = <<MsgBadHdr>>
        /\ rd[r].si = 2
        /\ rd[r].delivered = <<(<<1, 1>>)>>

\* C18: every fetch attempt that failed with an error other than a
\* cancellation is followed by exactly one sleep before the next attempt
\* starts, so a Read call that is in its n-th attempt has slept n-1 times;
\* no sleep follows a successful or a canceled attempt.
C18_OneSleepPerFailure ==
    \A r \in Readers :
        LET s == rd[r]
        IN /\ InFetch(s) => s.sleeps = s.fetchCalls - 1
           /\ s.pc = "sleep" =>
                 Retryable(s.fetchErr) /\ s.sleeps = s.fetchCalls
           /\ (s.pc = "done" /\ Retryable(s.fetchErr)) =>
                 s.sleeps = s.fetchCalls
           /\ (s.pc = "done" /\ (s.fetchErr = "nil" \/ IsCanceled(s.fetchErr))) =>
                 s.sleeps = s.fetchCalls - 1
           /\ (s.pc = "done" /\ s.fetchCalls = 0) => s.sleeps = 0

C18_Witness ==
    \E r \in Readers :
        /\ rd[r].pc = "done"
        /\ rd[r].fetchErr = "nil"
        /\ rd[r].fetchCalls = 3
        /\ rd[r].sleeps = 2

\* the three ways Read's caller may see it return: success, the terminal
\* "stopped" error, the error of building the query
ReadOutcomes == {"nil", "stopped", "error prepare stream query"}

\* C19: a Read call that is over has returned in one of three ways only:
\* success, the terminal "stopped" error, or a query-construction error
\* raised before the first attempt.
C19_ReadReturnsThreeWays ==
    \A r \in Readers :
        rd[r].pc = "done" => rd[r].result \in ReadOutcomes

\* C20: Read returns the terminal "stopped" error only when the context
\* passed to it has been canceled.
C20_StoppedOnlyIfCanceled ==
    \A r \in Readers :
        rd[r].result = "stopped" => ctx[r].canceled

====
